---- MODULE Spec2Model ----
(***************************************************************************)
(* A model of src/pty/win/conpty.rs: the ConPTY-backed pseudo-terminal     *)
(* pair (MasterPty / SlavePty over one Arc<Mutex<Inner>>), the spawn of a  *)
(* child attached to the pseudo-console, and the Child's lifecycle.        *)
(*                                                                         *)
(* Threads are the callers of the API.  A handler that takes the Inner     *)
(* lock, or that blocks in an OS call, is split at the lock acquisition    *)
(* and at the blocking call; everything else a handler does is one step.   *)
(* An OS call that can fail may succeed or fail; WaitForSingleObject with  *)
(* INFINITE on the Child's own process handle returns when the process     *)
(* has exited.                                                             *)
(*                                                                         *)
(* Spec is the whole API with writes that carry no bytes.  SpecCommand is  *)
(* the spawn side with Command::spawn also called directly.  SpecLoopback  *)
(* is the data path: writes that carry bytes, an echoing child and the     *)
(* reader, under weak fairness.                                            *)
(***************************************************************************)
EXTENDS Integers, Sequences, FiniteSets, TLC

\* ---------------------------------------------------------------- bounds

\* MasterPty operations started per cycle, over all clones
MaxOps == 2

\* ------------------------------------------------------------- constants

\* winapi STILL_ACTIVE, the status GetExitCodeProcess reports for a live process
STILL_ACTIVE == 259
\* the exit code kill() hands to TerminateProcess
KillCode == 1
\* u16 and i16 are 16 bits wide
Width == 16

\* --------------------------------------------------------------- domains

\* the threads that hold MasterPty clones
Threads == {"m1", "m2"}
\* the thread that holds the SlavePty and, after the spawn, the Child
Spawner == "s"
Procs == Threads \cup {Spawner}

\* (num_rows, num_cols, pixel_width, pixel_height) arguments, each a u16
SizeTuples == { <<24, 80, 0, 0>>, <<40000, 65535, 640, 480>> }

\* exit codes a child may exit with by itself
ExitCodes == {0, STILL_ACTIVE}

\* the buffers handed to write: none where the bytes do not matter, and
\* two of different lengths and contents where they do
NoBytes == <<>>
Buffers == { <<1, 2>>, <<3>> }
\* the numbers of bytes a read takes
ReadLens == {1, 2}

\* every native resource one cycle can acquire
PipeEnds == {"stdin_read", "stdin_write", "stdout_read", "stdout_write"}
Roles == PipeEnds \cup {"hpc", "dup_in", "dup_out", "attrs", "hthread", "hproc",
                        "reader_m1", "reader_m2"}

NoSize == <<>>
NoInner == [alive |-> FALSE, con |-> "none", readable |-> "none",
            writable |-> "none", size |-> NoSize]
NoCmd == [input |-> "none", output |-> "none", hpc |-> "none"]
NoLoc == [arg |-> NoSize, idx |-> 0, buf |-> NoSize, ok |-> TRUE]
NoRet == [op |-> "none"]
NoCount == [spawn |-> 0, create |-> 0]
NoPipes == [stdin |-> <<>>, stdout |-> <<>>]

VARIABLES
    h,          \* OS handle table: Roles -> "none" | "open" | "closed" | "double"
    inner,      \* the shared Inner (con, readable, writable, size), or NoInner
    conSize,    \* the COORD <<X, Y>> the pseudo-console was last given
    lock,       \* the Mutex around Inner: "none" or the thread holding it
    masters,    \* the threads that hold a MasterPty clone
    slave,      \* whether the SlavePty exists
    readers,    \* the threads that hold a reader from try_clone_reader
    pc,         \* each thread's position
    loc,        \* each thread's locals: arguments, field index, copy, result
    ret,        \* each thread's last return value
    cmd,        \* the Command's input, output and hpc
    child,      \* whether the Child exists
    proc,       \* the OS process: "none" | "running" | "terminating" | "exited"
    exitCode,   \* the process's exit code once it has exited
    lastSet,    \* history: the tuple of openpty or of the last successful resize
    openArgs,   \* history: the tuple openpty was called with
    anyResize,  \* history: whether resize has been called since openpty
    ops,        \* MasterPty operations started in this cycle
    conpty,     \* the CONPTY static: "unresolved" | "resolved" | "poisoned"
    count,      \* history: spawn_command calls and CreateProcessW calls of this pair
    pipes,      \* the bytes in flight in the two pipes, oldest first
    sent,       \* history: the bytes WriteFile has accepted, each with its write call
    got         \* history: the bytes read from the readers, in the order read

vars == <<h, inner, conSize, lock, masters, slave, readers, pc, loc, ret, cmd,
          child, proc, exitCode, lastSet, openArgs, anyResize, ops, conpty, count,
          pipes, sent, got>>

\* ----------------------------------------------------------- conversions

\* `x as i16` of a u16: the same 16 bits read as two's complement
AsI16(x) == IF (x % (2 ^ Width)) >= 2 ^ (Width - 1)
            THEN (x % (2 ^ Width)) - 2 ^ Width
            ELSE x % (2 ^ Width)

\* COORD { X: num_cols as i16, Y: num_rows as i16 }
Coord(sz) == <<AsI16(sz[2]), AsI16(sz[1])>>

\* winsize { ws_row, ws_col, ws_xpixel, ws_ypixel }
Winsize(num_rows, num_cols, pixel_width, pixel_height) ==
    <<num_rows, num_cols, pixel_width, pixel_height>>

\* ----------------------------------------------------------- OwnedHandle

\* an OS call returned a new handle
OpenH(tab, r) == [tab EXCEPT ![r] = "open"]

\* the OS releases a resource: once is right, twice is a double release, and
\* a resource that was never acquired has nothing to release
Released(tab, r) == [tab EXCEPT ![r] = IF @ = "open" THEN "closed"
                                       ELSE IF @ = "none" THEN "none" ELSE "double"]

\* OwnedHandle's destruction closes the handle
CloseH(tab, r) == Released(tab, r)

\* Drop for ProcThreadAttributeList: DeleteProcThreadAttributeList
AttrListDrop(tab) == Released(tab, "attrs")

\* Drop for PsuedoCon: ClosePseudoConsole(self.con)
PsuedoConDrop(tab, con) == Released(tab, con)

RECURSIVE CloseAll(_, _)
CloseAll(tab, rs) == IF rs = <<>> THEN tab
                     ELSE CloseAll(CloseH(tab, Head(rs)), Tail(rs))

ReaderOf(t) == IF t = "m1" THEN "reader_m1" ELSE "reader_m2"

\* the Arc's strong count
Holders == Cardinality(masters) + (IF slave THEN 1 ELSE 0)

\* ------------------------------------------------------------------ Init

Init ==
    /\ h = [r \in Roles |-> "none"]
    /\ inner = NoInner
    /\ conSize = NoSize
    /\ lock = "none"
    /\ masters = {}
    /\ slave = FALSE
    /\ readers = {}
    /\ pc = [p \in Procs |-> "idle"]
    /\ loc = [p \in Procs |-> NoLoc]
    /\ ret = [p \in Procs |-> NoRet]
    /\ cmd = NoCmd
    /\ child = FALSE
    /\ proc = "none"
    /\ exitCode = 0
    /\ lastSet = NoSize
    /\ openArgs = NoSize
    /\ anyResize = FALSE
    /\ ops = 0
    /\ conpty = "unresolved"
    /\ count = NoCount
    /\ pipes = NoPipes
    /\ sent = <<>>
    /\ got = <<>>

\* nothing of an earlier cycle is left: no PTY pair, no reader, no Child
Quiescent ==
    /\ masters = {} /\ ~slave /\ readers = {} /\ ~child
    /\ \A p \in Procs : pc[p] = "idle"

\* the last Arc holder has gone: Inner's fields are destroyed in declaration
\* order (con, readable, writable)
DropInner(tab) == CloseAll(PsuedoConDrop(tab, inner.con), <<inner.readable, inner.writable>>)

\* --------------------------------------------------------------- openpty

\* The handle table after openpty ends at `outcome`.  The two pipes' ends
\* are locals; stdin_read and stdout_write are only lent to PsuedoCon::new
\* and are destroyed when openpty returns, on every path.
OpenptyHandles(outcome) ==
    LET fresh == [r \in Roles |-> "none"]
        p1 == OpenH(OpenH(fresh, "stdin_read"), "stdin_write")
        p2 == OpenH(OpenH(p1, "stdout_read"), "stdout_write")
        c  == OpenH(p2, "hpc")
    IN  CASE outcome = "pipe1_fail" -> fresh
          [] outcome = "pipe2_fail" -> CloseAll(p1, <<"stdin_write", "stdin_read">>)
          [] outcome \in {"con_fail", "unsupported"} ->
                CloseAll(p2, <<"stdout_write", "stdout_read", "stdin_write", "stdin_read">>)
          [] OTHER -> CloseAll(c, <<"stdout_write", "stdin_read">>)

\* The first use of CONPTY runs ConPtyFuncs::open(..).expect(..): the three
\* functions are resolved and the static is set for good, or, on an OS without
\* the facility, expect panics, and so does every later use of the static.
\* openpty uses CONPTY in PsuedoCon::new, after both pipes exist.
ConptyUsed(outcome) == outcome \in {"unsupported", "con_fail", "ok"}
ConptyCan(outcome) ==
    \/ ~ConptyUsed(outcome)
    \/ outcome = "unsupported" /\ conpty \in {"unresolved", "poisoned"}
    \/ outcome \in {"con_fail", "ok"} /\ conpty \in {"unresolved", "resolved"}
ConptyAfter(outcome) ==
    IF ~ConptyUsed(outcome) THEN conpty
    ELSE IF outcome = "unsupported" THEN "poisoned" ELSE "resolved"

\* how openpty comes back to its caller: with Ok, with Err, or unwinding
OpenptyHow(outcome) ==
    IF outcome = "ok" THEN "ok" ELSE IF outcome = "unsupported" THEN "panic" ELSE "err"

\* OpenptyInner with rows and columns stored in each other's place
OpenptyInner_Swapped(sz) ==
    [alive |-> TRUE, con |-> "hpc", readable |-> "stdout_read",
     writable |-> "stdin_write", size |-> Winsize(sz[2], sz[1], sz[3], sz[4])]

\* the Inner openpty builds
OpenptyInner(sz) ==
    [alive |-> TRUE, con |-> "hpc", readable |-> "stdout_read",
     writable |-> "stdin_write", size |-> Winsize(sz[1], sz[2], sz[3], sz[4])]

openpty(sz, outcome) ==
    /\ Quiescent
    /\ ConptyCan(outcome)
    /\ conpty' = ConptyAfter(outcome)
    /\ count' = NoCount
    /\ pipes' = NoPipes
    /\ sent' = <<>>
    /\ got' = <<>>
    /\ ops' = 0
    /\ h' = OpenptyHandles(outcome)
    /\ cmd' = NoCmd
    /\ proc' = "none"
    /\ exitCode' = 0
    /\ IF outcome = "ok"
       THEN /\ inner' = OpenptyInner(sz)
            /\ conSize' = Coord(sz)
            /\ masters' = {"m1"}
            /\ slave' = TRUE
            /\ lastSet' = sz
            /\ openArgs' = sz
            /\ anyResize' = FALSE
       ELSE /\ UNCHANGED <<inner, conSize, masters, slave, lastSet, openArgs, anyResize>>
    /\ ret' = [p \in Procs |-> IF p = Spawner
                                THEN [op |-> "openpty", ok |-> outcome = "ok", end |-> outcome,
                                      how |-> OpenptyHow(outcome), was |-> conpty]
                                ELSE NoRet]
    /\ UNCHANGED <<lock, readers, pc, loc, child>>

\* ------------------------------------------------------ MasterPty::resize

\* a MasterPty operation may start on a clone its thread holds
CanStart(t) == t \in masters /\ pc[t] = "idle" /\ ops < MaxOps

Begin(t, where, l) ==
    /\ pc' = [pc EXCEPT ![t] = where]
    /\ loc' = [loc EXCEPT ![t] = l]
    /\ ret' = [ret EXCEPT ![t] = NoRet]
    /\ ops' = ops + 1

\* Mutex::lock: blocks until the lock is free
Acquire(t) == lock = "none" /\ lock' = t

ResizeCall(t, sz) ==
    /\ CanStart(t)
    /\ Begin(t, "rs_lock", [NoLoc EXCEPT !.arg = sz])
    /\ anyResize' = TRUE
    /\ UNCHANGED <<h, inner, conSize, lock, masters, slave, readers, cmd, child,
                   proc, exitCode, lastSet, openArgs>>
    /\ UNCHANGED <<conpty, count, pipes, sent, got>>

ResizeLock(t) ==
    /\ pc[t] = "rs_lock"
    /\ Acquire(t)
    /\ pc' = [pc EXCEPT ![t] = "rs_os"]
    /\ UNCHANGED <<h, inner, conSize, masters, slave, readers, loc, ret, cmd, child,
                   proc, exitCode, lastSet, openArgs, anyResize, ops>>
    /\ UNCHANGED <<conpty, count, pipes, sent, got>>

\* PsuedoConResize with the new size stored before the console's answer is
\* looked at
PsuedoConResize_StoreFirst(t, okay) ==
    /\ pc[t] = "rs_os"
    /\ inner' = [inner EXCEPT !.size = loc[t].arg]
    /\ IF okay
       THEN /\ conSize' = Coord(loc[t].arg)
            /\ lastSet' = loc[t].arg
            /\ loc' = loc
       ELSE /\ loc' = [loc EXCEPT ![t].ok = FALSE]
            /\ UNCHANGED <<conSize, lastSet>>
    /\ pc' = [pc EXCEPT ![t] = "rs_unlock"]
    /\ UNCHANGED <<h, lock, masters, slave, readers, ret, cmd, child,
                   proc, exitCode, openArgs, anyResize, ops>>
    /\ UNCHANGED <<conpty, count, pipes, sent, got>>

\* PsuedoCon::resize: ResizePseudoConsole succeeds and the console has the new
\* dimensions, or fails, the console keeps its own and `?` returns the error
PsuedoConResize(t, okay) ==
    /\ pc[t] = "rs_os"
    /\ IF okay
       THEN /\ conSize' = Coord(loc[t].arg)
            /\ lastSet' = loc[t].arg
            /\ pc' = [pc EXCEPT ![t] = "rs_store"]
            /\ loc' = [loc EXCEPT ![t].idx = 1]
       ELSE /\ pc' = [pc EXCEPT ![t] = "rs_unlock"]
            /\ loc' = [loc EXCEPT ![t].ok = FALSE]
            /\ UNCHANGED <<conSize, lastSet>>
    /\ UNCHANGED <<h, inner, lock, masters, slave, readers, ret, cmd, child,
                   proc, exitCode, openArgs, anyResize, ops>>
    /\ UNCHANGED <<conpty, count, pipes, sent, got>>

\* the size with one field of the new winsize stored
StoreField(size, sz, k) == [size EXCEPT ![k] = sz[k]]

\* InnerResizeStore exchanging Inner's two pipe ends as it stores the size
InnerResizeStore_Rebind(t) ==
    /\ pc[t] = "rs_store"
    /\ inner' = [inner EXCEPT !.size = StoreField(@, loc[t].arg, loc[t].idx),
                              !.readable = inner.writable, !.writable = inner.readable]
    /\ IF loc[t].idx < 4
       THEN /\ loc' = [loc EXCEPT ![t].idx = @ + 1]
            /\ pc' = pc
       ELSE /\ loc' = loc
            /\ pc' = [pc EXCEPT ![t] = "rs_unlock"]
    /\ UNCHANGED <<h, conSize, lock, masters, slave, readers, ret, cmd, child,
                   proc, exitCode, lastSet, openArgs, anyResize, ops>>
    /\ UNCHANGED <<conpty, count, pipes, sent, got>>

\* self.size = winsize { .. }: four u16 stores
InnerResizeStore(t) ==
    /\ pc[t] = "rs_store"
    /\ inner' = [inner EXCEPT !.size = StoreField(@, loc[t].arg, loc[t].idx)]
    /\ IF loc[t].idx < 4
       THEN /\ loc' = [loc EXCEPT ![t].idx = @ + 1]
            /\ pc' = pc
       ELSE /\ loc' = loc
            /\ pc' = [pc EXCEPT ![t] = "rs_unlock"]
    /\ UNCHANGED <<h, conSize, lock, masters, slave, readers, ret, cmd, child,
                   proc, exitCode, lastSet, openArgs, anyResize, ops>>
    /\ UNCHANGED <<conpty, count, pipes, sent, got>>

\* the guard is dropped as MasterPty::resize returns
ResizeReturn(t) ==
    /\ pc[t] = "rs_unlock"
    /\ lock' = "none"
    /\ ret' = [ret EXCEPT ![t] = [op |-> "resize", ok |-> loc[t].ok, arg |-> loc[t].arg]]
    /\ pc' = [pc EXCEPT ![t] = "idle"]
    /\ loc' = [loc EXCEPT ![t] = NoLoc]
    /\ UNCHANGED <<h, inner, conSize, masters, slave, readers, cmd, child,
                   proc, exitCode, lastSet, openArgs, anyResize, ops>>
    /\ UNCHANGED <<conpty, count, pipes, sent, got>>

\* ---------------------------------------------------- MasterPty::get_size

GetSizeCall(t) ==
    /\ CanStart(t)
    /\ Begin(t, "gs_lock", NoLoc)
    /\ UNCHANGED <<h, inner, conSize, lock, masters, slave, readers, cmd, child,
                   proc, exitCode, lastSet, openArgs, anyResize>>
    /\ UNCHANGED <<conpty, count, pipes, sent, got>>

\* GetSizeLock reading the size without taking the lock
GetSizeLock_NoLock(t) ==
    /\ pc[t] = "gs_lock"
    /\ pc' = [pc EXCEPT ![t] = "gs_read"]
    /\ loc' = [loc EXCEPT ![t].idx = 1, ![t].buf = <<0, 0, 0, 0>>]
    /\ UNCHANGED <<h, inner, conSize, lock, masters, slave, readers, ret, cmd, child,
                   proc, exitCode, lastSet, openArgs, anyResize, ops>>
    /\ UNCHANGED <<conpty, count, pipes, sent, got>>

GetSizeLock(t) ==
    /\ pc[t] = "gs_lock"
    /\ Acquire(t)
    /\ pc' = [pc EXCEPT ![t] = "gs_read"]
    /\ loc' = [loc EXCEPT ![t].idx = 1, ![t].buf = <<0, 0, 0, 0>>]
    /\ UNCHANGED <<h, inner, conSize, masters, slave, readers, ret, cmd, child,
                   proc, exitCode, lastSet, openArgs, anyResize, ops>>
    /\ UNCHANGED <<conpty, count, pipes, sent, got>>

\* inner.size.clone(): four u16 loads
GetSizeRead(t) ==
    /\ pc[t] = "gs_read"
    /\ loc' = [loc EXCEPT ![t].buf = StoreField(@, inner.size, loc[t].idx),
                          ![t].idx = IF @ < 4 THEN @ + 1 ELSE @]
    /\ pc' = IF loc[t].idx < 4 THEN pc ELSE [pc EXCEPT ![t] = "gs_unlock"]
    /\ UNCHANGED <<h, inner, conSize, lock, masters, slave, readers, ret, cmd, child,
                   proc, exitCode, lastSet, openArgs, anyResize, ops>>
    /\ UNCHANGED <<conpty, count, pipes, sent, got>>

\* the guard is dropped as get_size returns Ok(copy); `set` and `first` record
\* what had been set, and whether any resize had been called, at that moment
GetSizeReturn(t) ==
    /\ pc[t] = "gs_unlock"
    /\ lock' = "none"
    /\ ret' = [ret EXCEPT ![t] = [op |-> "get_size", ok |-> TRUE, val |-> loc[t].buf,
                                  set |-> lastSet, first |-> ~anyResize]]
    /\ pc' = [pc EXCEPT ![t] = "idle"]
    /\ loc' = [loc EXCEPT ![t] = NoLoc]
    /\ UNCHANGED <<h, inner, conSize, masters, slave, readers, cmd, child,
                   proc, exitCode, lastSet, openArgs, anyResize, ops>>
    /\ UNCHANGED <<conpty, count, pipes, sent, got>>

\* ------------------------------------------------- io::Write for MasterPty

\* the pipe a handle is an end of: a duplicate is an end of the same pipe
\* as the handle it was duplicated from (dup_in from writable, dup_out and
\* the readers from readable)
PipeOf(r) == IF r \in {"stdin_read", "stdin_write", "dup_in"} THEN "stdin" ELSE "stdout"
WriteEnds == {"stdin_write", "stdout_write", "dup_in"}

\* write(buf) is called; loc.arg is buf and loc.idx the bytes transferred
WriteCall(t, buf) ==
    /\ CanStart(t)
    /\ Begin(t, "wr_lock", [NoLoc EXCEPT !.arg = buf])
    /\ UNCHANGED <<h, inner, conSize, lock, masters, slave, readers, cmd, child,
                   proc, exitCode, lastSet, openArgs, anyResize>>
    /\ UNCHANGED <<conpty, count, pipes, sent, got>>

\* WriteLock entering the OS write without the lock
WriteLock_NoLock(t) ==
    /\ pc[t] = "wr_lock"
    /\ pc' = [pc EXCEPT ![t] = "wr_os"]
    /\ UNCHANGED <<h, inner, conSize, lock, masters, slave, readers, loc, ret, cmd, child,
                   proc, exitCode, lastSet, openArgs, anyResize, ops>>
    /\ UNCHANGED <<conpty, count, pipes, sent, got>>

\* self.inner.lock().unwrap().writable.write(buf): the lock is taken and the
\* OS write is entered
WriteLock(t) ==
    /\ pc[t] = "wr_lock"
    /\ Acquire(t)
    /\ pc' = [pc EXCEPT ![t] = "wr_os"]
    /\ UNCHANGED <<h, inner, conSize, masters, slave, readers, loc, ret, cmd, child,
                   proc, exitCode, lastSet, openArgs, anyResize, ops>>
    /\ UNCHANGED <<conpty, count, pipes, sent, got>>

\* inside the OS write: the next byte of buf goes into the pipe that
\* Inner's writable handle is the write end of
WriteFileByte(t) ==
    /\ pc[t] = "wr_os"
    /\ loc[t].idx < Len(loc[t].arg)
    /\ inner.writable \in WriteEnds
    /\ pipes' = [pipes EXCEPT ![PipeOf(inner.writable)] = Append(@, loc[t].arg[loc[t].idx + 1])]
    /\ sent' = Append(sent, loc[t].arg[loc[t].idx + 1])
    /\ loc' = [loc EXCEPT ![t].idx = @ + 1]
    /\ UNCHANGED <<h, inner, conSize, lock, masters, slave, readers, pc, ret, cmd, child,
                   proc, exitCode, lastSet, openArgs, anyResize, ops>>
    /\ UNCHANGED <<conpty, count, got>>

\* the OS write returns, however long it took: Ok(n) with the n bytes it
\* transferred (all of buf, or fewer), or an error with none transferred;
\* the temporary guard is dropped at the end of the statement
WriteReturn(t, okay) ==
    /\ pc[t] = "wr_os"
    /\ IF okay THEN loc[t].idx > 0 \/ Len(loc[t].arg) = 0 ELSE loc[t].idx = 0
    /\ lock' = "none"
    /\ ret' = [ret EXCEPT ![t] = [op |-> "write", ok |-> okay, n |-> loc[t].idx]]
    /\ pc' = [pc EXCEPT ![t] = "idle"]
    /\ loc' = [loc EXCEPT ![t] = NoLoc]
    /\ UNCHANGED <<h, inner, conSize, masters, slave, readers, cmd, child,
                   proc, exitCode, lastSet, openArgs, anyResize, ops>>
    /\ UNCHANGED <<conpty, count, pipes, sent, got>>

\* flush: Ok(()) and nothing else
Flush(t) ==
    /\ CanStart(t)
    /\ ret' = [ret EXCEPT ![t] = [op |-> "flush", ok |-> TRUE]]
    /\ ops' = ops + 1
    /\ UNCHANGED <<h, inner, conSize, lock, masters, slave, readers, pc, loc, cmd,
                   child, proc, exitCode, lastSet, openArgs, anyResize>>
    /\ UNCHANGED <<conpty, count, pipes, sent, got>>

\* ------------------------------------------- MasterPty::try_clone_reader

TryCloneReaderCall(t) ==
    /\ CanStart(t)
    /\ t \notin readers
    /\ Begin(t, "cr_lock", NoLoc)
    /\ UNCHANGED <<h, inner, conSize, lock, masters, slave, readers, cmd, child,
                   proc, exitCode, lastSet, openArgs, anyResize>>
    /\ UNCHANGED <<conpty, count, pipes, sent, got>>

TryCloneReaderLock(t) ==
    /\ pc[t] = "cr_lock"
    /\ Acquire(t)
    /\ pc' = [pc EXCEPT ![t] = "cr_dup"]
    /\ UNCHANGED <<h, inner, conSize, masters, slave, readers, loc, ret, cmd, child,
                   proc, exitCode, lastSet, openArgs, anyResize, ops>>
    /\ UNCHANGED <<conpty, count, pipes, sent, got>>

\* ReaderUnlock with the guard kept alive by the returned reader
ReaderUnlock_Held(t) == t

\* the lock after try_clone_reader's statement: the temporary guard is gone
ReaderUnlock(t) == "none"

\* readable.try_clone() duplicates the handle or fails; the guard is a
\* temporary of the statement and is dropped as the function returns
TryCloneReaderDup(t, okay) ==
    /\ pc[t] = "cr_dup"
    /\ h' = IF okay THEN OpenH(h, ReaderOf(t)) ELSE h
    /\ readers' = IF okay THEN readers \cup {t} ELSE readers
    /\ lock' = ReaderUnlock(t)
    /\ ret' = [ret EXCEPT ![t] = [op |-> "try_clone_reader", ok |-> okay]]
    /\ pc' = [pc EXCEPT ![t] = "idle"]
    /\ UNCHANGED <<inner, conSize, masters, slave, loc, cmd, child,
                   proc, exitCode, lastSet, openArgs, anyResize, ops>>
    /\ UNCHANGED <<conpty, count, pipes, sent, got>>

\* a read on the duplicated handle blocks in the OS until output arrives
ReaderRead(t) ==
    /\ t \in readers
    /\ pc[t] = "idle"
    /\ pc' = [pc EXCEPT ![t] = "rd_block"]
    /\ ret' = [ret EXCEPT ![t] = NoRet]
    /\ UNCHANGED <<h, inner, conSize, lock, masters, slave, readers, loc, cmd, child,
                   proc, exitCode, lastSet, openArgs, anyResize, ops>>
    /\ UNCHANGED <<conpty, count, pipes, sent, got>>

\* the read returns Ok(n) with the n oldest bytes of the reader's pipe
\* (n = 0: a read that returns without data)
ReaderReadReturn(t, n) ==
    /\ pc[t] = "rd_block"
    /\ n <= Len(pipes[PipeOf(ReaderOf(t))])
    /\ pipes' = [pipes EXCEPT ![PipeOf(ReaderOf(t))] = SubSeq(@, n + 1, Len(@))]
    /\ got' = got \o SubSeq(pipes[PipeOf(ReaderOf(t))], 1, n)
    /\ pc' = [pc EXCEPT ![t] = "idle"]
    /\ ret' = [ret EXCEPT ![t] = [op |-> "read", ok |-> TRUE, n |-> n]]
    /\ UNCHANGED <<h, inner, conSize, lock, masters, slave, readers, loc, cmd, child,
                   proc, exitCode, lastSet, openArgs, anyResize, ops>>
    /\ UNCHANGED <<conpty, count, sent>>

\* the reader is an OwnedHandle of its own
DropReader(t) ==
    /\ t \in readers
    /\ pc[t] = "idle"
    /\ readers' = readers \ {t}
    /\ h' = CloseH(h, ReaderOf(t))
    /\ UNCHANGED <<inner, conSize, lock, masters, slave, pc, loc, ret, cmd, child,
                   proc, exitCode, lastSet, openArgs, anyResize, ops>>
    /\ UNCHANGED <<conpty, count, pipes, sent, got>>

\* ---------------------------------------------- MasterPty: Clone and drop

\* #[derive(Clone)]: one more reference to the same Arc
CloneMaster(t, u) ==
    /\ t \in masters /\ pc[t] = "idle"
    /\ u \notin masters /\ pc[u] = "idle"
    /\ masters' = masters \cup {u}
    /\ UNCHANGED <<h, inner, conSize, lock, readers, slave, pc, loc, ret, cmd, child,
                   proc, exitCode, lastSet, openArgs, anyResize, ops>>
    /\ UNCHANGED <<conpty, count, pipes, sent, got>>

\* DropRef destroying Inner with whichever reference is dropped first
DropRef_Eager(wasLast) ==
    /\ h' = DropInner(h)
    /\ inner' = NoInner
    /\ conSize' = NoSize
    /\ lastSet' = NoSize
    /\ openArgs' = NoSize
    /\ anyResize' = FALSE

\* dropping the last reference destroys Inner
DropRef(wasLast) ==
    /\ h' = IF wasLast THEN DropInner(h) ELSE h
    /\ inner' = IF wasLast THEN NoInner ELSE inner
    /\ conSize' = IF wasLast THEN NoSize ELSE conSize
    /\ lastSet' = IF wasLast THEN NoSize ELSE lastSet
    /\ openArgs' = IF wasLast THEN NoSize ELSE openArgs
    /\ anyResize' = IF wasLast THEN FALSE ELSE anyResize

DropMaster(t) ==
    /\ t \in masters /\ pc[t] = "idle"
    /\ masters' = masters \ {t}
    /\ DropRef(Holders = 1)
    /\ ret' = [ret EXCEPT ![t] = NoRet]
    /\ UNCHANGED <<lock, readers, slave, pc, loc, cmd, child, proc, exitCode, ops>>
    /\ UNCHANGED <<conpty, count, pipes, sent, got>>

\* ------------------------------------------------ SlavePty::spawn_command

S == Spawner

SpawnCommandCall ==
    /\ slave /\ pc[S] = "idle"
    /\ pc' = [pc EXCEPT ![S] = "sp_lock"]
    /\ loc' = [loc EXCEPT ![S] = NoLoc]
    /\ ret' = [ret EXCEPT ![S] = NoRet]
    /\ cmd' = NoCmd
    /\ count' = [count EXCEPT !.spawn = @ + 1]
    /\ UNCHANGED <<h, inner, conSize, lock, masters, slave, readers, child,
                   proc, exitCode, lastSet, openArgs, anyResize, ops>>
    /\ UNCHANGED <<conpty, pipes, sent, got>>

\* SpawnCommandLock going on to the duplications without the lock
SpawnCommandLock_NoLock ==
    /\ pc[S] = "sp_lock"
    /\ pc' = [pc EXCEPT ![S] = "sp_dup_w"]
    /\ UNCHANGED <<h, inner, conSize, lock, masters, slave, readers, loc, ret, cmd, child,
                   proc, exitCode, lastSet, openArgs, anyResize, ops>>
    /\ UNCHANGED <<conpty, count, pipes, sent, got>>

\* let inner = self.inner.lock().unwrap()
SpawnCommandLock ==
    /\ pc[S] = "sp_lock"
    /\ Acquire(S)
    /\ pc' = [pc EXCEPT ![S] = "sp_dup_w"]
    /\ UNCHANGED <<h, inner, conSize, masters, slave, readers, loc, ret, cmd, child,
                   proc, exitCode, lastSet, openArgs, anyResize, ops>>
    /\ UNCHANGED <<conpty, count, pipes, sent, got>>

\* a step of spawn_command or spawn failed: the error is on its way out
Failed(where) == /\ pc' = [pc EXCEPT ![S] = where]
                 /\ loc' = [loc EXCEPT ![S].ok = FALSE, ![S].buf = <<pc[S]>>]

\* inner.writable.try_clone()?
SpawnDupWritable(okay) ==
    /\ pc[S] = "sp_dup_w"
    /\ IF okay
       THEN /\ h' = OpenH(h, "dup_in")
            /\ pc' = [pc EXCEPT ![S] = "sp_dup_r"]
            /\ loc' = loc
       ELSE /\ h' = h
            /\ Failed("sp_ret")
    /\ UNCHANGED <<inner, conSize, lock, masters, slave, readers, ret, cmd, child,
                   proc, exitCode, lastSet, openArgs, anyResize, ops>>
    /\ UNCHANGED <<conpty, count, pipes, sent, got>>

\* Command::set_pty: the duplicates are moved in; the HPCON is copied
CommandSetPty(input, output, con) == [input |-> input, output |-> output, hpc |-> con]

\* inner.readable.try_clone()?, then cmd.set_pty(..); on failure the first
\* duplicate, a temporary, is destroyed
SpawnDupReadable(okay) ==
    /\ pc[S] = "sp_dup_r"
    /\ IF okay
       THEN /\ h' = OpenH(h, "dup_out")
            /\ cmd' = CommandSetPty("dup_in", "dup_out", inner.con)
            /\ pc' = [pc EXCEPT ![S] = "sp_attr_init"]
            /\ loc' = loc
       ELSE /\ h' = CloseH(h, "dup_in")
            /\ cmd' = cmd
            /\ Failed("sp_ret")
    /\ UNCHANGED <<inner, conSize, lock, masters, slave, readers, ret, child,
                   proc, exitCode, lastSet, openArgs, anyResize, ops>>
    /\ UNCHANGED <<conpty, count, pipes, sent, got>>

\* ProcThreadAttributeList::with_capacity(1)?: on failure no list exists
AttrListWithCapacity(okay) ==
    /\ pc[S] = "sp_attr_init"
    /\ IF okay
       THEN /\ h' = OpenH(h, "attrs")
            /\ pc' = [pc EXCEPT ![S] = "sp_attr_set"]
            /\ loc' = loc
       ELSE /\ h' = h
            /\ Failed("sp_ret")
    /\ UNCHANGED <<inner, conSize, lock, masters, slave, readers, ret, cmd, child,
                   proc, exitCode, lastSet, openArgs, anyResize, ops>>
    /\ UNCHANGED <<conpty, count, pipes, sent, got>>

\* AttrListSetPty with the result of UpdateProcThreadAttribute not looked at
AttrListSetPty_Unchecked(okay) ==
    /\ pc[S] = "sp_attr_set"
    /\ cmd.hpc # "none"
    /\ pc' = [pc EXCEPT ![S] = "sp_cmdline"]
    /\ loc' = [loc EXCEPT ![S].idx = IF okay THEN 1 ELSE 0]
    /\ UNCHANGED <<h, inner, conSize, lock, masters, slave, readers, ret, cmd, child,
                   proc, exitCode, lastSet, openArgs, anyResize, ops>>
    /\ UNCHANGED <<conpty, count, pipes, sent, got>>

\* attrs.set_pty(*self.hpc.as_ref().unwrap())?
AttrListSetPty(okay) ==
    /\ pc[S] = "sp_attr_set"
    /\ cmd.hpc # "none"
    /\ IF okay
       THEN /\ pc' = [pc EXCEPT ![S] = "sp_cmdline"]
            /\ loc' = [loc EXCEPT ![S].idx = 1]
       ELSE Failed("sp_spawn_ret")
    /\ UNCHANGED <<h, inner, conSize, lock, masters, slave, readers, ret, cmd, child,
                   proc, exitCode, lastSet, openArgs, anyResize, ops>>
    /\ UNCHANGED <<conpty, count, pipes, sent, got>>

\* self.builder.cmdline()?
BuilderCmdline(okay) ==
    /\ pc[S] = "sp_cmdline"
    /\ IF okay
       THEN /\ pc' = [pc EXCEPT ![S] = "sp_create"]
            /\ loc' = loc
       ELSE Failed("sp_spawn_ret")
    /\ UNCHANGED <<h, inner, conSize, lock, masters, slave, readers, ret, cmd, child,
                   proc, exitCode, lastSet, openArgs, anyResize, ops>>
    /\ UNCHANGED <<conpty, count, pipes, sent, got>>

\* CreateProcessW: on success the OS hands back a thread and a process handle
CreateProcess(okay) ==
    /\ pc[S] = "sp_create"
    /\ count' = [count EXCEPT !.create = @ + 1]
    /\ IF okay
       THEN /\ h' = OpenH(OpenH(h, "hthread"), "hproc")
            /\ proc' = "running"
            /\ pc' = [pc EXCEPT ![S] = "sp_spawn_ret"]
            /\ loc' = [loc EXCEPT ![S].idx = 2]
       ELSE /\ h' = h
            /\ proc' = proc
            /\ Failed("sp_spawn_ret")
    /\ UNCHANGED <<inner, conSize, lock, masters, slave, readers, ret, cmd, child,
                   exitCode, lastSet, openArgs, anyResize, ops>>
    /\ UNCHANGED <<conpty, pipes, sent, got>>

\* SpawnLocalsDrop without a Drop for the attribute list
SpawnLocalsDrop_NoDelete(tab) == CloseH(tab, "hthread")

\* SpawnLocalsDrop with the thread handle left as the raw value CreateProcessW
\* stored
SpawnLocalsDrop_NoThread(tab) == AttrListDrop(tab)

\* what spawn's locals release as it returns, in reverse order of declaration:
\* _main_thread (the thread handle, an OwnedHandle), then attrs
SpawnLocalsDrop(tab) == AttrListDrop(CloseH(tab, "hthread"))

\* spawn returns, Ok(Child { proc }) or the error
SpawnReturn ==
    /\ pc[S] = "sp_spawn_ret"
    /\ h' = SpawnLocalsDrop(h)
    /\ pc' = [pc EXCEPT ![S] = "sp_ret"]
    /\ UNCHANGED <<inner, conSize, lock, masters, slave, readers, loc, ret, cmd, child,
                   proc, exitCode, lastSet, openArgs, anyResize, ops>>
    /\ UNCHANGED <<conpty, count, pipes, sent, got>>

\* the Command is destroyed: the OwnedHandles it was given are closed, input
\* before output; its HPCON is a plain value and nothing is done with it
CommandDrop(tab, c) ==
    LET a == IF c.input # "none" THEN CloseH(tab, c.input) ELSE tab
    IN  IF c.output # "none" THEN CloseH(a, c.output) ELSE a

\* SlaveAfterSpawn for a spawn_command that borrowed the SlavePty
SlaveAfterSpawn_Borrowed == slave

\* spawn_command takes `self` by value: the SlavePty is gone when it returns
SlaveAfterSpawn == FALSE

\* spawn_command returns: the guard is dropped, then cmd, then self
SpawnCommandReturn ==
    /\ pc[S] = "sp_ret"
    /\ lock' = "none"
    /\ cmd' = NoCmd
    /\ slave' = SlaveAfterSpawn
    /\ h' = IF Holders = 1 THEN DropInner(CommandDrop(h, cmd)) ELSE CommandDrop(h, cmd)
    /\ inner' = IF Holders = 1 THEN NoInner ELSE inner
    /\ conSize' = IF Holders = 1 THEN NoSize ELSE conSize
    /\ lastSet' = IF Holders = 1 THEN NoSize ELSE lastSet
    /\ openArgs' = IF Holders = 1 THEN NoSize ELSE openArgs
    /\ anyResize' = IF Holders = 1 THEN FALSE ELSE anyResize
    /\ child' = loc[S].ok
    /\ ret' = [ret EXCEPT ![S] = [op |-> "spawn_command", ok |-> loc[S].ok,
                                  end |-> IF loc[S].ok THEN "ok" ELSE loc[S].buf[1]]]
    /\ pc' = [pc EXCEPT ![S] = "idle"]
    /\ loc' = [loc EXCEPT ![S] = NoLoc]
    /\ UNCHANGED <<masters, readers, proc, exitCode, ops>>
    /\ UNCHANGED <<conpty, count, pipes, sent, got>>

\* ------------------------------------------ Command::spawn, called directly

\* Command::new(program) followed by spawn(): both are pub, while set_pty is
\* private, so a Command built outside spawn_command has input, output and
\* hpc None.  No lock is involved.
CommandSpawnCall ==
    /\ pc[S] = "idle"
    /\ cmd' = NoCmd
    /\ pc' = [pc EXCEPT ![S] = "cs_attr_init"]
    /\ loc' = [loc EXCEPT ![S] = NoLoc]
    /\ ret' = [ret EXCEPT ![S] = NoRet]
    /\ UNCHANGED <<h, inner, conSize, lock, masters, slave, readers, child,
                   proc, exitCode, lastSet, openArgs, anyResize, ops>>
    /\ UNCHANGED <<conpty, count, pipes, sent, got>>

\* how a direct spawn comes back: `bound` is whether the Command had a
\* pseudo-console when spawn ran
SpawnRet(how) == [op |-> "spawn", ok |-> FALSE, how |-> how, bound |-> cmd.hpc # "none"]

\* ProcThreadAttributeList::with_capacity(1)? in the direct call
CommandWithCapacity(okay) ==
    /\ pc[S] = "cs_attr_init"
    /\ IF okay
       THEN /\ h' = OpenH(h, "attrs")
            /\ pc' = [pc EXCEPT ![S] = "cs_unwrap"]
            /\ ret' = ret
       ELSE /\ h' = h
            /\ pc' = [pc EXCEPT ![S] = "idle"]
            /\ ret' = [ret EXCEPT ![S] = SpawnRet("err")]
    /\ UNCHANGED <<inner, conSize, lock, masters, slave, readers, loc, cmd, child,
                   proc, exitCode, lastSet, openArgs, anyResize, ops>>
    /\ UNCHANGED <<conpty, count, pipes, sent, got>>

\* *self.hpc.as_ref().unwrap() on None panics; the unwinding destroys attrs
CommandUnwrapNone ==
    /\ pc[S] = "cs_unwrap"
    /\ cmd.hpc = "none"
    /\ h' = AttrListDrop(h)
    /\ pc' = [pc EXCEPT ![S] = "idle"]
    /\ ret' = [ret EXCEPT ![S] = SpawnRet("panic")]
    /\ UNCHANGED <<inner, conSize, lock, masters, slave, readers, loc, cmd, child,
                   proc, exitCode, lastSet, openArgs, anyResize, ops>>
    /\ UNCHANGED <<conpty, count, pipes, sent, got>>

\* a SlavePty that is dropped without a spawn
DropSlave ==
    /\ slave /\ pc[S] = "idle"
    /\ slave' = FALSE
    /\ DropRef(Holders = 1)
    /\ UNCHANGED <<lock, masters, readers, pc, loc, ret, cmd, child, proc, exitCode, ops>>
    /\ UNCHANGED <<conpty, count, pipes, sent, got>>

\* ----------------------------------------------------------------- Child

\* what GetExitCodeProcess stores in `status` when it succeeds
ExitCodeOf == IF proc = "exited" THEN exitCode ELSE STILL_ACTIVE

None == [some |-> FALSE]
Some(status) == [some |-> TRUE, status |-> status]

\* Child::try_wait's value, Ok(..) in every case, from GetExitCodeProcess's
\* result (res # 0 is `okay`) and the status it stored
TryWaitValue(okay, status) ==
    IF okay
    THEN IF status = STILL_ACTIVE THEN None ELSE Some(status)
    ELSE None

\* history kept with a Child operation's return value: whether the process
\* had exited, and with which code, when the operation returned
Seen == [exited |-> proc = "exited", code |-> IF proc = "exited" THEN exitCode ELSE 0]

ChildIdle == child /\ pc[S] = "idle"

\* history: the status of the kill() of a running child that this call follows
AfterKill == IF ret[S].op = "kill" /\ ret[S].ok /\ ret[S].wasRunning
             THEN Some(ret[S].val) ELSE None

TryWait(okay) ==
    /\ ChildIdle
    /\ ret' = [ret EXCEPT ![S] = [op |-> "try_wait", ok |-> TRUE, queryOk |-> okay,
                                  val |-> TryWaitValue(okay, ExitCodeOf), seen |-> Seen,
                                  afterKill |-> AfterKill]]
    /\ UNCHANGED <<h, inner, conSize, lock, masters, slave, readers, pc, loc, cmd, child,
                   proc, exitCode, lastSet, openArgs, anyResize, ops>>
    /\ UNCHANGED <<conpty, count, pipes, sent, got>>

\* Child::wait is entered, directly or from kill (loc.buf names the caller)
WaitCall ==
    /\ ChildIdle
    /\ pc' = [pc EXCEPT ![S] = "w_try"]
    /\ loc' = [loc EXCEPT ![S] = [NoLoc EXCEPT !.buf = <<"wait">>]]
    /\ ret' = [ret EXCEPT ![S] = NoRet]
    /\ UNCHANGED <<h, inner, conSize, lock, masters, slave, readers, cmd, child,
                   proc, exitCode, lastSet, openArgs, anyResize, ops>>
    /\ UNCHANGED <<conpty, count, pipes, sent, got>>

\* kill is entered
KillCall ==
    /\ ChildIdle
    /\ pc' = [pc EXCEPT ![S] = "k_term"]
    /\ loc' = [loc EXCEPT ![S] = [NoLoc EXCEPT !.buf = <<"kill">>]]
    /\ ret' = [ret EXCEPT ![S] = NoRet]
    /\ UNCHANGED <<h, inner, conSize, lock, masters, slave, readers, cmd, child,
                   proc, exitCode, lastSet, openArgs, anyResize, ops>>
    /\ UNCHANGED <<conpty, count, pipes, sent, got>>

\* TerminateProcess(self.proc.handle, 1): its result is not looked at.  It
\* can only succeed on a process that has not exited; termination then
\* proceeds in the OS.  loc.idx records whether the process was running when
\* the request was made, loc.ok whether the request succeeded.
KillTerminate(okay) ==
    /\ pc[S] = "k_term"
    /\ okay => proc \in {"running", "terminating"}
    /\ proc' = IF okay THEN "terminating" ELSE proc
    /\ loc' = [loc EXCEPT ![S].ok = okay, ![S].idx = IF proc = "running" THEN 1 ELSE 0]
    /\ pc' = [pc EXCEPT ![S] = "w_try"]
    /\ UNCHANGED <<h, inner, conSize, lock, masters, slave, readers, ret, cmd, child,
                   exitCode, lastSet, openArgs, anyResize, ops>>
    /\ UNCHANGED <<conpty, count, pipes, sent, got>>

\* the value wait or kill returns, with its history
WaitRet(r) == [op |-> loc[S].buf[1], ok |-> r.ok, val |-> r.val, seen |-> Seen,
               wasRunning |-> loc[S].idx = 1, termOk |-> loc[S].ok]

Returned(r) ==
    /\ ret' = [ret EXCEPT ![S] = r]
    /\ pc' = [pc EXCEPT ![S] = "idle"]
    /\ loc' = [loc EXCEPT ![S] = NoLoc]

\* if let Ok(Some(status)) = self.try_wait() { return Ok(status) }
WaitTryWait(okay) ==
    /\ pc[S] = "w_try"
    /\ LET v == TryWaitValue(okay, ExitCodeOf)
       IN  IF v.some
           THEN Returned(WaitRet([ok |-> TRUE, val |-> v.status]))
           ELSE /\ pc' = [pc EXCEPT ![S] = "w_block"]
                /\ UNCHANGED <<loc, ret>>
    /\ UNCHANGED <<h, inner, conSize, lock, masters, slave, readers, cmd, child,
                   proc, exitCode, lastSet, openArgs, anyResize, ops>>
    /\ UNCHANGED <<conpty, count, pipes, sent, got>>

\* WaitForSingleObject(self.proc.handle, INFINITE) returns once the process
\* has exited
WaitBlock ==
    /\ pc[S] = "w_block"
    /\ proc = "exited"
    /\ pc' = [pc EXCEPT ![S] = "w_query"]
    /\ UNCHANGED <<h, inner, conSize, lock, masters, slave, readers, loc, ret, cmd, child,
                   proc, exitCode, lastSet, openArgs, anyResize, ops>>
    /\ UNCHANGED <<conpty, count, pipes, sent, got>>

\* wait's own GetExitCodeProcess: Ok(ExitStatus { status }) or the OS error
WaitValue(okay, status) == IF okay THEN [ok |-> TRUE, val |-> status]
                           ELSE [ok |-> FALSE, val |-> 0]

WaitQuery(okay) ==
    /\ pc[S] = "w_query"
    /\ Returned(WaitRet(WaitValue(okay, ExitCodeOf)))
    /\ UNCHANGED <<h, inner, conSize, lock, masters, slave, readers, cmd, child,
                   proc, exitCode, lastSet, openArgs, anyResize, ops>>
    /\ UNCHANGED <<conpty, count, pipes, sent, got>>

\* the Child is dropped: its process handle is closed
DropChild ==
    /\ ChildIdle
    /\ child' = FALSE
    /\ h' = CloseH(h, "hproc")
    /\ UNCHANGED <<inner, conSize, lock, masters, slave, readers, pc, loc, ret, cmd,
                   proc, exitCode, lastSet, openArgs, anyResize, ops>>
    /\ UNCHANGED <<conpty, count, pipes, sent, got>>

\* ---------------------------------------------------------- the process

\* the child exits by itself
ProcessExits(code) ==
    /\ proc = "running"
    /\ proc' = "exited"
    /\ exitCode' = code
    /\ UNCHANGED <<h, inner, conSize, lock, masters, slave, readers, pc, loc, ret, cmd,
                   child, lastSet, openArgs, anyResize, ops>>
    /\ UNCHANGED <<conpty, count, pipes, sent, got>>

\* the child echoes: the oldest byte of its input, the pipe whose read end
\* the pseudo-console was created on, goes to its output, the pipe whose
\* write end the pseudo-console was created on
ChildEcho ==
    /\ proc = "running"
    /\ h["hpc"] = "open"
    /\ pipes[PipeOf("stdin_read")] # <<>>
    /\ pipes' = [pipes EXCEPT ![PipeOf("stdin_read")] = Tail(@),
                              ![PipeOf("stdout_write")] =
                                  Append(@, Head(pipes[PipeOf("stdin_read")]))]
    /\ UNCHANGED <<h, inner, conSize, lock, masters, slave, readers, pc, loc, ret, cmd,
                   child, proc, exitCode, lastSet, openArgs, anyResize, ops>>
    /\ UNCHANGED <<conpty, count, sent, got>>

\* a termination that TerminateProcess started completes
ProcessTerminated ==
    /\ proc = "terminating"
    /\ proc' = "exited"
    /\ exitCode' = KillCode
    /\ UNCHANGED <<h, inner, conSize, lock, masters, slave, readers, pc, loc, ret, cmd,
                   child, lastSet, openArgs, anyResize, ops>>
    /\ UNCHANGED <<conpty, count, pipes, sent, got>>

\* ------------------------------------------------------------------ Next

OpenptyOutcomes == {"pipe1_fail", "pipe2_fail", "unsupported", "con_fail", "ok"}

Next ==
    \/ \E sz \in SizeTuples, o \in OpenptyOutcomes : openpty(sz, o)
    \/ \E t \in Threads, sz \in SizeTuples : ResizeCall(t, sz)
    \/ \E t \in Threads : ResizeLock(t)
    \/ \E t \in Threads, okay \in BOOLEAN : PsuedoConResize(t, okay)
    \/ \E t \in Threads : InnerResizeStore(t)
    \/ \E t \in Threads : ResizeReturn(t)
    \/ \E t \in Threads : GetSizeCall(t)
    \/ \E t \in Threads : GetSizeLock(t)
    \/ \E t \in Threads : GetSizeRead(t)
    \/ \E t \in Threads : GetSizeReturn(t)
    \/ \E t \in Threads : WriteCall(t, NoBytes)
    \/ \E t \in Threads : WriteLock(t)
    \/ \E t \in Threads, okay \in BOOLEAN : WriteReturn(t, okay)
    \/ \E t \in Threads : Flush(t)
    \/ \E t \in Threads : TryCloneReaderCall(t)
    \/ \E t \in Threads : TryCloneReaderLock(t)
    \/ \E t \in Threads, okay \in BOOLEAN : TryCloneReaderDup(t, okay)
    \/ \E t \in Threads : ReaderRead(t)
    \/ \E t \in Threads : ReaderReadReturn(t, 0)
    \/ \E t \in Threads : DropReader(t)
    \/ \E t \in Threads, u \in Threads : CloneMaster(t, u)
    \/ \E t \in Threads : DropMaster(t)
    \/ SpawnCommandCall
    \/ SpawnCommandLock
    \/ \E okay \in BOOLEAN : SpawnDupWritable(okay)
    \/ \E okay \in BOOLEAN : SpawnDupReadable(okay)
    \/ \E okay \in BOOLEAN : AttrListWithCapacity(okay)
    \/ \E okay \in BOOLEAN : AttrListSetPty(okay)
    \/ \E okay \in BOOLEAN : BuilderCmdline(okay)
    \/ \E okay \in BOOLEAN : CreateProcess(okay)
    \/ SpawnReturn
    \/ SpawnCommandReturn
    \/ DropSlave
    \/ \E okay \in BOOLEAN : TryWait(okay)
    \/ WaitCall
    \/ KillCall
    \/ \E okay \in BOOLEAN : KillTerminate(okay)
    \/ \E okay \in BOOLEAN : WaitTryWait(okay)
    \/ WaitBlock
    \/ \E okay \in BOOLEAN : WaitQuery(okay)
    \/ DropChild
    \/ \E code \in ExitCodes : ProcessExits(code)
    \/ ProcessTerminated

Spec == Init /\ [][Next]_vars

\* The spawn side alone, with Command::spawn also called on a Command that
\* did not come through spawn_command.
NextCommand ==
    \/ \E sz \in SizeTuples, o \in OpenptyOutcomes : openpty(sz, o)
    \/ \E t \in Threads : DropMaster(t)
    \/ SpawnCommandCall
    \/ SpawnCommandLock
    \/ \E okay \in BOOLEAN : SpawnDupWritable(okay)
    \/ \E okay \in BOOLEAN : SpawnDupReadable(okay)
    \/ \E okay \in BOOLEAN : AttrListWithCapacity(okay)
    \/ \E okay \in BOOLEAN : AttrListSetPty(okay)
    \/ \E okay \in BOOLEAN : BuilderCmdline(okay)
    \/ \E okay \in BOOLEAN : CreateProcess(okay)
    \/ SpawnReturn
    \/ SpawnCommandReturn
    \/ DropSlave
    \/ DropChild
    \/ CommandSpawnCall
    \/ \E okay \in BOOLEAN : CommandWithCapacity(okay)
    \/ CommandUnwrapNone

SpecCommand == Init /\ [][NextCommand]_vars

\* The loopback: a pair on which openpty, a clone of the MasterPty, a
\* successful spawn_command and try_clone_reader (on the first MasterPty)
\* have returned; the operations counted by ops are those started from here.
\* The two MasterPty clones write, the child echoes, the reader is read.
LoopbackSize == <<24, 80, 0, 0>>

LoopbackHandles ==
    LET a == OpenptyHandles("ok")
        b == OpenH(OpenH(a, "dup_in"), "dup_out")
        c == OpenH(OpenH(OpenH(b, "attrs"), "hthread"), "hproc")
        d == CommandDrop(SpawnLocalsDrop(c), CommandSetPty("dup_in", "dup_out", "hpc"))
    IN  OpenH(d, ReaderOf("m1"))

InitLoopback ==
    /\ h = LoopbackHandles
    /\ inner = OpenptyInner(LoopbackSize)
    /\ conSize = Coord(LoopbackSize)
    /\ lock = "none"
    /\ masters = Threads
    /\ slave = FALSE
    /\ readers = {"m1"}
    /\ pc = [p \in Procs |-> "idle"]
    /\ loc = [p \in Procs |-> NoLoc]
    /\ ret = [p \in Procs |->
                 IF p = Spawner THEN [op |-> "spawn_command", ok |-> TRUE, end |-> "ok"]
                 ELSE IF p = "m1" THEN [op |-> "try_clone_reader", ok |-> TRUE]
                 ELSE NoRet]
    /\ cmd = NoCmd
    /\ child = TRUE
    /\ proc = "running"
    /\ exitCode = 0
    /\ lastSet = LoopbackSize
    /\ openArgs = LoopbackSize
    /\ anyResize = FALSE
    /\ ops = 0
    /\ conpty = "resolved"
    /\ count = [spawn |-> 1, create |-> 1]
    /\ pipes = NoPipes
    /\ sent = <<>>
    /\ got = <<>>

NextLoopback ==
    \/ \E t \in Threads, buf \in Buffers : WriteCall(t, buf)
    \/ \E t \in Threads : WriteLock(t)
    \/ \E t \in Threads : WriteFileByte(t)
    \/ \E t \in Threads, okay \in BOOLEAN : WriteReturn(t, okay)
    \/ ChildEcho
    \/ \E t \in Threads : ReaderRead(t)
    \/ \E t \in Threads, n \in ReadLens : ReaderReadReturn(t, n)

\* the reader's thread goes on reading
ReadStep == \E t \in Threads : ReaderRead(t) \/ \E n \in ReadLens : ReaderReadReturn(t, n)

\* a write that has been called gets the lock when it is free, the OS write
\* goes on and returns; the child goes on echoing; the reader is read
FairLoopback ==
    /\ \A t \in Threads : /\ WF_vars(WriteLock(t))
                           /\ WF_vars(WriteFileByte(t))
                           /\ WF_vars(WriteReturn(t, TRUE))
    /\ WF_vars(ChildEcho)
    /\ WF_vars(ReadStep)

SpecLoopback == InitLoopback /\ [][NextLoopback]_vars /\ FairLoopback

\* ================================================================ claims

\* the positions at which a thread is between taking the Inner lock and
\* giving it back
LockedPositions == {"rs_os", "rs_store", "rs_unlock", "gs_read", "gs_unlock", "wr_os",
                    "cr_dup", "sp_dup_w", "sp_dup_r", "sp_attr_init", "sp_attr_set",
                    "sp_cmdline", "sp_create", "sp_spawn_ret", "sp_ret"}
Inside(p) == pc[p] \in LockedPositions

\* the lock is held only by a thread that is inside a locked operation
LockHeldInside == lock # "none" => Inside(lock)

GotSize(t) == ret[t].op = "get_size"

\* C1: for rows > 0 and cols > 0, a get_size() on the MasterPty or on a clone
\* of it that returns before any resize has been called returns exactly the
\* four values openpty was called with.
C1_GetSizeReturnsOpenptySize ==
    \A t \in Threads :
        (GotSize(t) /\ ret[t].first /\ openArgs[1] > 0 /\ openArgs[2] > 0)
            => ret[t].ok /\ ret[t].val = openArgs

\* a clone's get_size has returned the large tuple before any resize
C1_Witness ==
    /\ GotSize("m2") /\ ret["m2"].first
    /\ openArgs = <<40000, 65535, 640, 480>>
    /\ ret["m2"].val = openArgs

\* C2: every get_size() returns exactly the tuple of the last successful
\* resize before it (the openpty tuple if there was none), whatever the
\* interleaving of resize and get_size on the clones: always one complete
\* argument tuple, never a mixture of the fields of two.
C2_GetSizeReturnsLastResize ==
    \A t \in Threads :
        GotSize(t) => ret[t].val = ret[t].set /\ ret[t].val \in SizeTuples

\* a get_size has returned the tuple a successful resize on the other clone set
C2_Witness ==
    \E t \in Threads, u \in Threads :
        /\ t # u
        /\ GotSize(t) /\ ret[t].val # openArgs
        /\ ret[u].op = "resize" /\ ret[u].ok /\ ret[u].arg = ret[t].val

\* the stored size after a resize that failed is the tuple of the last
\* successful resize or of openpty, which is what a get_size() before the
\* failed resize returned
FailedResizeSize ==
    \A t \in Threads :
        /\ (pc[t] = "rs_unlock" /\ ~loc[t].ok) => inner.size = lastSet
        /\ (ret[t].op = "resize" /\ ~ret[t].ok /\ lock = "none") => inner.size = lastSet

\* the step at which ResizePseudoConsole fails changes neither Inner nor the
\* console's size, and the resize that returns from it returns an error
FailedResizeStep ==
    \A t \in Threads :
        /\ (pc[t] = "rs_os" /\ pc'[t] = "rs_unlock")
              => ~loc'[t].ok /\ inner' = inner /\ conSize' = conSize
        /\ (pc[t] = "rs_unlock" /\ ~loc[t].ok /\ pc'[t] = "idle")
              => ret'[t].op = "resize" /\ ~ret'[t].ok /\ inner' = inner

\* C3: when ResizePseudoConsole fails, MasterPty::resize returns an error
\* and the stored size is unchanged: it is still the tuple of the last
\* successful resize or of openpty, which a get_size() after it returns as
\* a get_size() before it did.
C3_FailedResizeKeepsSize == [](FailedResizeSize) /\ [][FailedResizeStep]_vars

\* a resize has failed and a later get_size returned the openpty tuple
C3_Witness ==
    \E t \in Threads, u \in Threads :
        /\ ret[t].op = "resize" /\ ~ret[t].ok /\ ret[t].arg # openArgs
        /\ GotSize(u) /\ ~ret[u].first /\ ret[u].val = openArgs

\* C4: at most one thread is inside resize's, get_size's or write's access to
\* Inner, that thread holds the lock, and the lock is held for as long as
\* the OS write is in flight.
C4_OneOperationInsideInner ==
    /\ Cardinality({p \in Procs : Inside(p)}) <= 1
    /\ \A t \in Threads : Inside(t) => lock = t

\* a write is in flight on one clone while an operation on the other waits
C4_Witness ==
    /\ pc["m1"] = "wr_os"
    /\ pc["m2"] \in {"rs_lock", "gs_lock", "wr_lock"}

\* C5: a thread blocked in a read on the reader from try_clone_reader does
\* not hold the Inner lock: the lock is only ever held by a thread inside a
\* locked operation, so operations on the clones go on while the read blocks.
C5_ReadHoldsNoLock ==
    /\ \A t \in Threads : pc[t] = "rd_block" => lock # t
    /\ LockHeldInside
    /\ \A t \in Threads :
        (pc[t] = "rd_block" /\ lock = "none")
            => \A u \in Threads : pc[u] \in {"rs_lock", "gs_lock", "wr_lock"}
                                    => ENABLED (ResizeLock(u) \/ GetSizeLock(u) \/ WriteLock(u))

\* one thread is blocked in read while the other is about to return from a
\* successful resize
C5_Witness ==
    /\ pc["m1"] = "rd_block"
    /\ pc["m2"] = "rs_unlock" /\ loc["m2"].ok /\ lock = "m2"

\* the return value of the Child operation that returned last
R == ret[S]

\* C6: try_wait() returns None only while the process has not exited; once it
\* has exited with code c, whatever c is, try_wait() returns Some(c) and
\* wait() returns c.  Stated here for the calls whose GetExitCodeProcess
\* succeeded.
C6_TryWaitAndWaitAgree ==
    /\ (R.op = "try_wait" /\ R.queryOk)
          => /\ R.val.some <=> R.seen.exited
             /\ R.val.some => R.val.status = R.seen.code
    /\ (R.op = "wait" /\ R.ok) => R.seen.exited /\ R.val = R.seen.code

\* C7: wait() and kill() return a status only once the process has exited;
\* kill() on a child that was running when termination was requested returns
\* a non-zero status, and the try_wait() that follows that kill() returns
\* the same status.
C7_KillReturnsForcedStatus ==
    /\ (R.op \in {"wait", "kill"} /\ R.ok) => R.seen.exited
    /\ (R.op = "kill" /\ R.ok /\ R.wasRunning) => R.val # 0
    /\ (R.op = "try_wait" /\ R.afterKill.some) => R.val = R.afterKill

\* the resources one spawn_command call acquires
SpawnRoles == {"dup_in", "dup_out", "attrs", "hthread", "hproc"}

\* C8: when openpty fails at the second pipe or at the pseudo-console, or
\* spawn_command fails at a handle duplication, at the attribute list's
\* initialisation or update, at the command line or at process creation,
\* no resource that call acquired is open when the error is returned, and
\* none was released twice.
C8_FailureReleasesAcquired ==
    /\ (R.op = "openpty" /\ ~R.ok) => \A r \in Roles : h[r] \in {"none", "closed"}
    /\ (R.op = "spawn_command" /\ ~R.ok) => \A r \in SpawnRoles : h[r] \in {"none", "closed"}
    /\ (Inside(S) /\ ~loc[S].ok /\ pc[S] = "sp_ret") => h["attrs"] \in {"none", "closed"}

\* spawn_command has failed at process creation, after both duplications and
\* the attribute list
C8_Witness ==
    /\ R.op = "spawn_command" /\ ~R.ok /\ R.end = "sp_create"
    /\ h["dup_in"] = "closed" /\ h["dup_out"] = "closed" /\ h["attrs"] = "closed"
    /\ h["hproc"] = "none"

\* C9: when a cycle openpty -> spawn_command -> kill -> drop of the Child and
\* of every MasterPty clone has ended, every resource acquired in it has been
\* released, none more than once, and the Inner lock is free; the lock is
\* only ever held by a thread inside a locked operation, so no step of a
\* later cycle waits for it forever.
C9_CycleReleasesEverything ==
    /\ Quiescent => /\ \A r \in Roles : h[r] \in {"none", "closed"}
                    /\ lock = "none"
                    /\ inner = NoInner
    /\ \A r \in Roles : h[r] # "double"
    /\ lock # "none" => Inside(lock) /\ inner.alive

\* a cycle has ended after a kill: the four pipe ends, the pseudo-console,
\* the duplicates, the attribute list, the thread and the process handle
\* are all closed, and openpty can be called again
C9_Witness ==
    /\ Quiescent
    /\ R.op = "kill" /\ R.ok
    /\ \A r \in Roles \ {"reader_m1", "reader_m2"} : h[r] = "closed"
    /\ ENABLED (\E sz \in SizeTuples : openpty(sz, "ok"))

\* C10: a failed GetExitCodeProcess in try_wait() and a failed
\* TerminateProcess on a running child in kill() are returned as errors.
C10_NoFailureSwallowed ==
    /\ (R.op = "try_wait" /\ ~R.queryOk) => ~R.ok
    /\ (R.op = "kill" /\ R.wasRunning /\ ~R.termOk) => ~R.ok

\* C11: on an OS without the pseudo-console facility the first and every
\* later openpty that gets as far as the pseudo-console comes back to its
\* caller with an error value, the failed resolution stays cached, and no
\* pipe end created before the failed use is left open.
C11_UnsupportedReportedAsError ==
    (R.op = "openpty" /\ R.end = "unsupported")
        => /\ R.how = "err"
           /\ conpty = "poisoned"
           /\ \A r \in PipeEnds : h[r] = "closed"

\* the positions inside Command::spawn, reached through spawn_command or
\* directly
InSpawn == pc[S] \in {"sp_attr_init", "sp_attr_set", "sp_cmdline", "sp_create",
                      "sp_spawn_ret", "cs_attr_init", "cs_unwrap"}

\* C12: whenever Command::spawn is running, the Command has been bound by
\* set_pty to a pseudo-console and to the two pipe handles.
C12_SpawnOnlyWithBoundCommand ==
    InSpawn => cmd.hpc # "none" /\ cmd.input # "none" /\ cmd.output # "none"

\* the raw handle values Inner holds
InnerHandles == {inner.con, inner.readable, inner.writable} \ {"none"}

\* C13: the pipe handles and the pseudo-console handle that spawn_command
\* places in the Command are handles of their own, duplicated from Inner's:
\* none of them is the raw value of a handle Inner holds.
C13_CommandHoldsDuplicates ==
    {cmd.input, cmd.output, cmd.hpc} \cap InnerHandles = {}

\* C14: on one openpty pair spawn_command is called at most once and
\* CreateProcessW is issued at most once; once spawn_command has been
\* called, with whatever result, there is no SlavePty left to call it on.
C14_SpawnCommandOnce ==
    /\ count.spawn <= 1
    /\ count.create <= 1
    /\ (slave /\ pc[S] = "idle") => count.spawn = 0

\* spawn_command has failed before process creation, and the pair's
\* MasterPty outlives the consumed SlavePty
C14_Witness ==
    /\ R.op = "spawn_command" /\ ~R.ok
    /\ count.spawn = 1 /\ count.create = 0
    /\ ~slave /\ masters # {}

\* the native resources Inner owns
InnerRoles == {"hpc", "stdout_read", "stdin_write"}

\* C15: Inner exists exactly as long as a MasterPty clone or the SlavePty
\* does, and while it exists its pseudo-console and its two pipe ends are
\* open; they are never released twice; and a thread inside resize,
\* get_size, write, try_clone_reader or spawn_command finds Inner alive and
\* the three handles open.
C15_InnerOutlivesHolders ==
    /\ inner.alive <=> Holders > 0
    /\ Holders > 0 => \A r \in InnerRoles : h[r] = "open"
    /\ \A r \in InnerRoles : h[r] # "double"
    /\ \A p \in Procs :
          Inside(p) => /\ inner.alive
                       /\ \A r \in InnerHandles : h[r] = "open"
                       /\ InnerHandles = InnerRoles

\* the SlavePty was consumed by a spawn and the first MasterPty dropped; a
\* write on the remaining clone is in flight on the open pipe end
C15_Witness ==
    /\ ~slave /\ masters = {"m2"} /\ count.spawn = 1
    /\ pc["m2"] = "wr_os"
    /\ h["stdin_write"] = "open" /\ h["hpc"] = "open"

\* the positions of resize, and of get_size, try_clone_reader and write
ResizePositions == {"rs_lock", "rs_os", "rs_store", "rs_unlock"}
ReadOnlyPositions == {"gs_lock", "gs_read", "gs_unlock", "cr_lock", "cr_dup",
                      "wr_lock", "wr_os"}

\* thread t takes the step, between or at the given positions
StepOf(t, positions) ==
    /\ pc[t] \in positions \/ pc'[t] \in positions
    /\ pc'[t] # pc[t] \/ loc'[t] # loc[t]

\* thread t's flush
FlushStep(t) == pc[t] = "idle" /\ pc'[t] = "idle" /\ ret'[t].op = "flush" /\ ops' # ops

\* Inner's three handles are the ones openpty installed, and they are open
BoundAsOpened ==
    inner.alive => /\ inner.con = OpenptyInner(openArgs).con
                   /\ inner.readable = OpenptyInner(openArgs).readable
                   /\ inner.writable = OpenptyInner(openArgs).writable
                   /\ \A r \in InnerRoles : h[r] = "open"

\* a step of resize leaves Inner's handles and the handle table alone; a
\* step of get_size, try_clone_reader, write or flush leaves Inner, and so
\* the stored size, and the console's dimensions alone
ResizeFrameStep ==
    \A t \in Threads :
        /\ StepOf(t, ResizePositions)
              => /\ inner'.con = inner.con
                 /\ inner'.readable = inner.readable
                 /\ inner'.writable = inner.writable
                 /\ h' = h
        /\ (StepOf(t, ReadOnlyPositions) \/ FlushStep(t))
              => inner' = inner /\ conSize' = conSize

\* C17: after any sequence of successful or failed resize calls Inner's
\* pseudo-console handle, readable handle and writable handle are the ones
\* openpty installed; get_size, try_clone_reader, write and flush leave
\* the stored size unchanged.
C17_ResizeChangesOnlySize == [](BoundAsOpened) /\ [][ResizeFrameStep]_vars

\* one resize has failed and another has succeeded and set a new size; the
\* handles are still those of openpty
C17_Witness ==
    \E t \in Threads, u \in Threads :
        /\ ret[t].op = "resize" /\ ~ret[t].ok
        /\ ret[u].op = "resize" /\ ret[u].ok
        /\ inner.alive /\ inner.size = ret[u].arg /\ inner.size # openArgs
        /\ inner.readable = "stdout_read" /\ inner.writable = "stdin_write"

\* the positions of spawn between the attribute list's initialisation and
\* the return of CreateProcessW
AttrsInUse == {"sp_attr_set", "sp_cmdline", "sp_create"}

\* the step of spawn_command that failed, while the error is on its way out
\* or after it has been returned
SpawnFailedAt ==
    IF pc[S] \in {"sp_spawn_ret", "sp_ret"} /\ ~loc[S].ok THEN loc[S].buf[1]
    ELSE IF R.op = "spawn_command" /\ ~R.ok THEN R.end
    ELSE "none"

\* C18: CreateProcessW is issued only with the attribute list initialised
\* and the pseudo-console attribute installed in it; the list is torn down
\* only after CreateProcessW has returned; and when the initialisation or
\* the attribute update fails, CreateProcessW is never issued.
C18_AttributeListAroundCreation ==
    /\ pc[S] = "sp_create" => h["attrs"] = "open" /\ loc[S].idx = 1
    /\ pc[S] \in AttrsInUse => h["attrs"] = "open"
    /\ count.create > 0 => h["attrs"] \in {"open", "closed"}
    /\ SpawnFailedAt \in {"sp_attr_init", "sp_attr_set"}
          => count.create = 0 /\ proc = "none" /\ h["hproc"] = "none"

\* the attribute update has failed: spawn_command has returned the error,
\* the list is torn down and no process creation was attempted
C18_Witness ==
    /\ R.op = "spawn_command" /\ ~R.ok /\ R.end = "sp_attr_set"
    /\ h["attrs"] = "closed" /\ count.create = 0

\* C19: whenever no resize is in progress, the dimensions last handed to the
\* pseudo-console, X and Y, are numerically equal to the ws_col and ws_row
\* held in the stored size, which is what get_size() reports.
C19_ConsoleSizeMatchesStored ==
    (inner.alive /\ lock = "none") => conSize = <<inner.size[2], inner.size[1]>>

\* the positions of spawn_command from the first duplication to its return
SpawnLocked == {"sp_dup_w", "sp_dup_r", "sp_attr_init", "sp_attr_set", "sp_cmdline",
                "sp_create", "sp_spawn_ret", "sp_ret"}

\* the positions at which a MasterPty operation waits for the lock
WaitingForLock == {"rs_lock", "gs_lock", "wr_lock", "cr_lock"}

\* C20: from before the first handle duplication until spawn_command
\* returns, so across process creation, the spawning thread holds the Inner
\* lock and no resize, get_size, write or try_clone_reader is inside Inner;
\* outside those positions, so after a return with Ok or with an error, it
\* does not hold the lock, and a waiting MasterPty operation can take a free
\* lock.
C20_SpawnHoldsLock ==
    /\ pc[S] \in SpawnLocked => lock = S /\ \A t \in Threads : ~Inside(t)
    /\ pc[S] \notin SpawnLocked => lock # S
    /\ \A t \in Threads :
          (R.op = "spawn_command" /\ lock = "none" /\ pc[t] \in WaitingForLock)
              => ENABLED (ResizeLock(t) \/ GetSizeLock(t) \/ WriteLock(t)
                            \/ TryCloneReaderLock(t))

\* CreateProcessW is about to be issued under the lock while an operation
\* on a MasterPty waits for the lock
C20_Witness ==
    /\ pc[S] = "sp_create" /\ lock = S
    /\ \E t \in Threads : pc[t] \in WaitingForLock

\* the longest buffer and the most bytes the writes of one run can send
MaxBufLen == CHOOSE n \in {Len(b) : b \in Buffers} : \A b \in Buffers : Len(b) <= n
MaxBytes == MaxOps * MaxBufLen

\* what the reader has observed is the beginning of what was written, byte
\* for byte in the order written
GotIsPrefix == Len(got) <= Len(sent) /\ got = SubSeq(sent, 1, Len(got))

\* the bytes a write in flight has transferred so far are the newest bytes
\* sent, unbroken by bytes of another write, and are the beginning of its
\* buffer
InFlightContiguous ==
    \A t \in Threads :
        pc[t] = "wr_os"
            => /\ loc[t].idx <= Len(sent)
               /\ SubSeq(sent, Len(sent) - loc[t].idx + 1, Len(sent))
                      = SubSeq(loc[t].arg, 1, loc[t].idx)

\* C16: with a child that echoes its input to its output, the bytes the
\* reader from try_clone_reader() observes are always the beginning of the
\* bytes written through MasterPty::write, in the order written and with
\* the bytes of one write never broken by those of another; and every byte
\* written is eventually observed.
C16_Loopback ==
    /\ [](GotIsPrefix /\ InFlightContiguous)
    /\ \A k \in 1..MaxBytes : (Len(sent) >= k) ~> (Len(got) >= k)

\* two writes, of two bytes and of one, have been made and the reader has
\* observed all three bytes
C16_Witness ==
    /\ ops = 2 /\ Len(sent) = 3
    /\ got = sent
    /\ \A t \in Threads : pc[t] = "idle"

====
